---- MODULE Spec2Model ----
(***************************************************************************)
(* Checkpoint loading of the Baichuan2 model                               *)
(* (vllm/model_executor/models/baichuan2.py).                              *)
(*                                                                         *)
(* The model follows one tensor-parallel rank: the construction of the     *)
(* model graph (which allocates the parameter store, state_dict) and the   *)
(* loop of BaiChuanBaseForCausalLM.load_weights over the checkpoint        *)
(* stream, one action per entry.  A second specification, SpecShard,       *)
(* applies the loader's slicing arithmetic for rank 0, 1, ... in turn to   *)
(* one checkpoint tensor, to compare what the ranks take.                  *)
(*                                                                         *)
(* Parameter names are sequences of tokens, separators included, so that   *)
(* Python's substring test (`in`) and str.replace are contiguous           *)
(* sub-sequence operations.  A tensor is a view of a checkpoint tensor:    *)
(* the source entry, and the list of source indices it holds along each    *)
(* dimension.                                                              *)
(***************************************************************************)
EXTENDS Integers, Sequences, FiniteSets, TLC

\* ------------------------------------------------------------------------
\* Bounds of the model
\* ------------------------------------------------------------------------
MaxWorld == 2
MaxHeads == 2
MaxHeadDim == 1
MaxInter == 2
MaxStream == 2

VARIABLES
    pc,             \* "init" | "ready" | "loading" | "done" | "failed" | "shard"
    err,            \* the exception that ended the run: [kind, line]
    config,         \* the model configuration and the partition descriptor
    state_dict,     \* the rank's parameter store: name -> destination tensor
    has_norm_head,  \* load_weights' flag
    seen,           \* history: entries read from the stream so far, per name
    nread,          \* history: number of entries read from the stream
    last,           \* history: what the last entry read did
    ckpt,           \* SpecShard: the checkpoint tensor being partitioned
    gathered        \* SpecShard: the slice each rank 0, 1, ... took of it

vars == <<pc, err, config, state_dict, has_norm_head, seen, nread, last,
          ckpt, gathered>>

\* ------------------------------------------------------------------------
\* Python helpers
\* ------------------------------------------------------------------------
Min(a, b) == IF a < b THEN a ELSE b

\* range(n) as a sequence: <<0, ..., n-1>>
Range(n) == [i \in 1..n |-> i - 1]

\* s[a:b] for 0 <= a, 0 <= b: indices past the end are clamped, never an error
PySlice(s, a, b) == SubSeq(s, Min(a, Len(s)) + 1, Min(b, Len(s)))

\* pat in name
Contains(pat, name) ==
    \E i \in 1..(Len(name) - Len(pat) + 1) :
        SubSeq(name, i, i + Len(pat) - 1) = pat

\* name.replace(old, new): every non-overlapping occurrence, left to right
RECURSIVE Replace(_, _, _)
Replace(name, old, new) ==
    IF Len(name) < Len(old) THEN name
    ELSE IF SubSeq(name, 1, Len(old)) = old
         THEN new \o Replace(SubSeq(name, Len(old) + 1, Len(name)), old, new)
         ELSE <<Head(name)>> \o Replace(Tail(name), old, new)

RECURSIVE Flatten(_)
Flatten(ss) == IF ss = <<>> THEN <<>> ELSE Head(ss) \o Flatten(Tail(ss))

SeqToSet(s) == {s[i] : i \in 1..Len(s)}

\* ------------------------------------------------------------------------
\* Names
\* ------------------------------------------------------------------------
Weight == <<".", "weight">>
RotaryInvFreq == <<"rotary", "_", "emb", ".", "inv", "_", "freq">>
WPack == <<"W", "_", "pack">>
GateProj == <<"gate", "_", "proj">>
UpProj == <<"up", "_", "proj">>
GateUpProj == <<"gate", "_", "up", "_", "proj">>
OProj == <<"o", "_", "proj">>
DownProj == <<"down", "_", "proj">>
EmbedTokens == <<"embed", "_", "tokens">>
LmHead == <<"lm", "_", "head">>
LmHeadWeight == LmHead \o Weight

\* the decoder layers of the model (config.num_hidden_layers = 1)
LayerIds == {"0"}
Layer(l) == <<"model", ".", "layers", ".", l, ".">>
SelfAttn(l) == Layer(l) \o <<"self", "_", "attn", ".">>
Mlp(l) == Layer(l) \o <<"mlp", ".">>
InputLayernorm(l) == Layer(l) \o <<"input", "_", "layernorm">> \o Weight
PostAttentionLayernorm(l) ==
    Layer(l) \o <<"post", "_", "attention", "_", "layernorm">> \o Weight
EmbedTokensWeight == <<"model", ".">> \o EmbedTokens \o Weight
NormWeight == <<"model", ".", "norm">> \o Weight

\* self.state_dict(): the parameters the constructors register
StoreNames ==
    {LmHeadWeight, EmbedTokensWeight, NormWeight}
    \cup UNION {{SelfAttn(l) \o WPack \o Weight,
                 SelfAttn(l) \o OProj \o Weight,
                 Mlp(l) \o GateUpProj \o Weight,
                 Mlp(l) \o DownProj \o Weight,
                 InputLayernorm(l),
                 PostAttentionLayernorm(l)} : l \in LayerIds}

\* names a checkpoint stream may carry besides the ones the store resolves
SkippedNames ==
    {SelfAttn(l) \o RotaryInvFreq : l \in LayerIds}
    \cup {Mlp(l) \o GateProj \o <<".">> \o RotaryInvFreq : l \in LayerIds}
    \cup {SelfAttn(l) \o WPack \o <<".">> \o RotaryInvFreq : l \in LayerIds}
    \cup {LmHead \o <<".">> \o RotaryInvFreq}
UnknownNames ==
    {Layer("1") \o <<"mlp", ".">> \o GateProj \o Weight,
     Layer("1") \o <<"self", "_", "attn", ".">> \o WPack \o Weight,
     <<"model", ".", "layers", ".", "0", ".", "self", "_", "attn", ".",
       "q", "_", "proj", ".", "weight">>}
    \cup {Mlp(l) \o GateProj \o <<".">> \o UpProj \o Weight : l \in LayerIds}
    \cup {Mlp(l) \o GateUpProj \o Weight : l \in LayerIds}
CheckpointNames ==
    {LmHeadWeight, EmbedTokensWeight, NormWeight}
    \cup UNION {{SelfAttn(l) \o WPack \o Weight,
                 SelfAttn(l) \o OProj \o Weight,
                 Mlp(l) \o GateProj \o Weight,
                 Mlp(l) \o UpProj \o Weight,
                 Mlp(l) \o DownProj \o Weight,
                 InputLayernorm(l),
                 PostAttentionLayernorm(l)} : l \in LayerIds}
EntryNames == CheckpointNames \cup SkippedNames \cup UnknownNames

\* ------------------------------------------------------------------------
\* Tensors
\* ------------------------------------------------------------------------
\* A view of the checkpoint tensor of entry src.  The source is read as a
\* list of chunks of `stride` elements (its rows, until a view re-chunks
\* it); the view holds the chunks `rows`, and of each the elements `cols`.
\* A 1-D tensor has ndim = 1 and no cols.
Shape(t) == IF t.ndim = 1 THEN <<Len(t.rows)>> ELSE <<Len(t.rows), Len(t.cols)>>
Numel(t) == IF t.ndim = 1 THEN Len(t.rows) ELSE Len(t.rows) * Len(t.cols)

\* the tensor a checkpoint holds under a name, of the given shape
CheckpointTensor(name, shape) ==
    [src |-> name,
     ndim |-> Len(shape),
     stride |-> IF Len(shape) = 1 THEN 1 ELSE shape[2],
     rows |-> Range(shape[1]),
     cols |-> IF Len(shape) = 1 THEN <<>> ELSE Range(shape[2]),
     normed |-> FALSE]

\* t[a:b]
SliceRows(t, a, b) == [t EXCEPT !.rows = PySlice(t.rows, a, b)]
\* t[:, a:b]
SliceCols(t, a, b) == [t EXCEPT !.cols = PySlice(t.cols, a, b)]

\* one row of a destination tensor: what was last copied into it
Unwritten == [src |-> <<>>, stride |-> 0, row |-> 0, cols |-> <<>>, normed |-> FALSE]
CellOf(t, i) ==
    [src |-> t.src, stride |-> t.stride, row |-> t.rows[i], cols |-> t.cols,
     normed |-> t.normed]

\* a pre-allocated destination tensor
EmptyParam(shape) ==
    [shape |-> shape,
     data |-> [i \in 1..shape[1] |-> Unwritten],
     wcnt |-> [i \in 1..shape[1] |-> 0]]

\* the shape of param.data[a:b]
ParamSliceShape(param, a, b) ==
    [param.shape EXCEPT ![1] = Len(PySlice(Range(param.shape[1]), a, b))]

\* mutant: the copy is left out
CopyNothing(param, a, t) == param

\* param.data[a:a+len(t)].copy_(t), the shapes being equal
CopyInto(param, a, t) ==
    [param EXCEPT
        !.data = [i \in 1..param.shape[1] |->
                    IF i > a /\ i <= a + Len(t.rows)
                    THEN CellOf(t, i - a) ELSE param.data[i]],
        !.wcnt = [i \in 1..param.shape[1] |->
                    IF i > a /\ i <= a + Len(t.rows)
                    THEN param.wcnt[i] + 1 ELSE param.wcnt[i]]]

\* ------------------------------------------------------------------------
\* Model construction: the shapes of the parameter store
\* ------------------------------------------------------------------------
\* mutant: the assertion is dropped
HeadsUnchecked(cfg) == TRUE

\* BaichuanAttention.__init__: assert total_num_heads % world_size == 0
HeadsDivisible(cfg) == cfg.num_attention_heads % cfg.world_size = 0

\* self.head_dim = hidden_size // self.total_num_heads
HeadDim(cfg) == cfg.hidden_size \div cfg.num_attention_heads

\* the size one rank holds of a dimension of n split over the ranks; the
\* parallel layers refuse a dimension the world size does not divide
PartitionSize(n, cfg) == n \div cfg.world_size
Partitionable(n, cfg) == n % cfg.world_size = 0

\* the vocabulary size padded to a multiple of the world size
PadVocab(cfg) ==
    ((cfg.vocab_size + cfg.world_size - 1) \div cfg.world_size) * cfg.world_size

\* the dimensions the parallel layers of the model split over the ranks
SplitDims(cfg) ==
    {3 * cfg.hidden_size, cfg.num_attention_heads * HeadDim(cfg),
     2 * cfg.intermediate_size, cfg.intermediate_size, cfg.vocab_size}

\* the shape of the rank's destination tensor of a parameter
ParamShape(cfg, name) ==
    IF name = LmHeadWeight
    THEN <<PartitionSize(cfg.vocab_size, cfg), cfg.hidden_size>>
    ELSE IF name = EmbedTokensWeight
    THEN <<PartitionSize(PadVocab(cfg), cfg), cfg.hidden_size>>
    ELSE IF Contains(WPack, name)
    THEN <<PartitionSize(3 * cfg.hidden_size, cfg), cfg.hidden_size>>
    ELSE IF Contains(OProj, name)
    THEN <<cfg.hidden_size,
           PartitionSize(cfg.num_attention_heads * HeadDim(cfg), cfg)>>
    ELSE IF Contains(GateUpProj, name)
    THEN <<PartitionSize(2 * cfg.intermediate_size, cfg), cfg.hidden_size>>
    ELSE IF Contains(DownProj, name)
    THEN <<cfg.hidden_size, PartitionSize(cfg.intermediate_size, cfg)>>
    ELSE <<cfg.hidden_size>>

NewStore(cfg) == [n \in StoreNames |-> EmptyParam(ParamShape(cfg, n))]

NoErr == [kind |-> "none", at |-> "none"]
Raise(kind, at) == [kind |-> kind, at |-> at]

\* ------------------------------------------------------------------------
\* load_weights: what one entry of the stream does
\* ------------------------------------------------------------------------
\* mutant: the rank is not scaled by the number of heads of a rank
WPackHeadRangeUnscaled(cfg) ==
    <<cfg.rank, cfg.rank + (cfg.num_attention_heads \div cfg.world_size)>>

\* the head range a rank keeps of a fused QKV tensor
WPackHeadRange(cfg) ==
    LET num_heads == cfg.num_attention_heads \div cfg.world_size
    IN  <<cfg.rank * num_heads, (cfg.rank + 1) * num_heads>>

\* loaded_weight.view(3, total_num_heads, head_size, hidden_size) is
\* possible
WPackViewable(cfg, t) ==
    Numel(t) = 3 * cfg.num_attention_heads * HeadDim(cfg) * cfg.hidden_size

\* view, [:, head_start:head_end, :, :], reshape(-1, hidden_size)
WPackSlice(cfg, t) ==
    LET total == cfg.num_attention_heads
        head_size == HeadDim(cfg)
        heads == PySlice(Range(total), WPackHeadRange(cfg)[1],
                         WPackHeadRange(cfg)[2])
        per == Len(heads) * head_size
    IN  [t EXCEPT
            !.ndim = 2,
            !.stride = cfg.hidden_size,
            !.cols = Range(cfg.hidden_size),
            !.rows = [k \in 1..(3 * per) |->
                        (((k - 1) \div per) * total * head_size)
                        + (heads[(((k - 1) % per) \div head_size) + 1] * head_size)
                        + (((k - 1) % per) % head_size)]]

\* enumerate(["gate_proj", "up_proj"]): the first that the name contains;
\* -1 when it contains neither
GateUpStrideId(name) ==
    IF Contains(GateProj, name) THEN 0
    ELSE IF Contains(UpProj, name) THEN 1
    ELSE -1

\* name.replace(weight_name, "gate_up_proj")
GateUpParamName(name) ==
    IF GateUpStrideId(name) = 0 THEN Replace(name, GateProj, GateUpProj)
    ELSE Replace(name, UpProj, GateUpProj)

\* mutant: the destination is not halved
GateUpShardSizeWhole(param) == param.shape[1]

\* shard_size = param.shape[0] // 2
GateUpShardSize(param) == param.shape[1] \div 2

\* mutant: every rank takes the first shard
GateUpSourceNoRank(cfg, param, t) == SliceRows(t, 0, GateUpShardSize(param))

\* loaded_weight[shard_size * tp_rank : shard_size * (tp_rank + 1)]
GateUpSource(cfg, param, t) ==
    SliceRows(t, GateUpShardSize(param) * cfg.rank,
                 GateUpShardSize(param) * (cfg.rank + 1))

\* mutant: the ordinal of the half is ignored
GateUpDestStartZero(param, stride_id) == 0

\* the start of param.data[shard_size * stride_id : shard_size * (stride_id + 1)]
GateUpDestStart(param, stride_id) == GateUpShardSize(param) * stride_id

\* torch.nn.functional.normalize(loaded_weight)
Normalize(t) == [t EXCEPT !.normed = TRUE]

RowParallelWeights == {OProj \o Weight, DownProj \o Weight}

\* mutant: only the name the model itself would give the buffer is skipped
IsSkippedExact(name) ==
    \E l \in LayerIds : name = SelfAttn(l) \o RotaryInvFreq

\* if "rotary_emb.inv_freq" in name: continue
IsSkipped(name) == Contains(RotaryInvFreq, name)

\* mutant: the flag is never set
NormHeadFlagNeverSet(hnh, name) == hnh

\* has_norm_head after the entry: set when name == "lm_head.weight"
NormHeadFlag(hnh, name) == IF name = LmHeadWeight THEN TRUE ELSE hnh

\* mutant: the assertion is dropped
GateUpShapesUnchecked(param, stride_id, src) == TRUE

\* assert param_slice.shape == loaded_weight.shape
GateUpShapesAgree(param, stride_id, src) ==
    ParamSliceShape(param, GateUpDestStart(param, stride_id),
                    GateUpDestStart(param, stride_id) + GateUpShardSize(param))
        = Shape(src)

\* the result of one entry: the exception raised (or none), the store and
\* the flag after it, the branch that handled it, and whether the fused
\* QKV slicing ran
Outcome(e, sd, hnh, path, wpack) ==
    [err |-> e, state_dict |-> sd, has_norm_head |-> hnh, path |-> path,
     wpack |-> wpack]

\* mutant: a name the store does not hold is passed over
MissingParamIgnored(sd, hnh, path, at, wpack) ==
    Outcome(NoErr, sd, hnh, path, wpack)

\* state_dict[...] of a name the store does not hold
MissingParam(sd, hnh, path, at, wpack) ==
    Outcome(Raise("KeyError", at), sd, hnh, path, wpack)

\* load_padded_tensor_parallel_vocab(param, loaded_weight, tp_rank)
LoadPaddedTensorParallelVocab(cfg, sd, hnh, name, t, wpack) ==
    LET param == sd[name]
        shard_size == param.shape[1]
        src == SliceRows(t, shard_size * cfg.rank, shard_size * (cfg.rank + 1))
    IN  IF Tail(Shape(src)) # Tail(param.shape)
        THEN Outcome(Raise("RuntimeError", "weight_utils"), sd, hnh, "vocab", wpack)
        ELSE Outcome(NoErr, [sd EXCEPT ![name] = CopyInto(param, 0, src)],
                     hnh, "vocab", wpack)

\* load_tensor_parallel_weights(param, loaded_weight, name,
\*     _column_parallel_weights, _row_parallel_weights, tp_rank)
LoadTensorParallelWeights(cfg, sd, hnh, name, t, wpack) ==
    LET param == sd[name]
        rowp == \E p \in RowParallelWeights : Contains(p, name)
        bad == rowp /\ (t.ndim = 1 \/ Len(param.shape) = 1)
        src == IF rowp /\ ~bad
               THEN SliceCols(t, param.shape[2] * cfg.rank,
                                 param.shape[2] * (cfg.rank + 1))
               ELSE t
    IN  IF bad
        THEN Outcome(Raise("IndexError", "weight_utils"), sd, hnh, "generic", wpack)
        ELSE IF Shape(src) # param.shape
        THEN Outcome(Raise("AssertionError", "weight_utils"), sd, hnh,
                     "generic", wpack)
        ELSE Outcome(NoErr, [sd EXCEPT ![name] = CopyInto(param, 0, src)],
                     hnh, "generic", wpack)

\* the gate_proj / up_proj branch
LoadGateUp(cfg, sd, hnh, name, t, wpack) ==
    LET key == GateUpParamName(name)
        stride_id == GateUpStrideId(name)
    IN  IF key \notin DOMAIN sd
        THEN MissingParam(sd, hnh, "gate_up", "L342", wpack)
        ELSE LET param == sd[key]
                 src == GateUpSource(cfg, param, t)
                 start == GateUpDestStart(param, stride_id)
             IN  IF ~GateUpShapesAgree(param, stride_id, src)
                 THEN Outcome(Raise("AssertionError", "L348"), sd, hnh,
                              "gate_up", wpack)
                 ELSE Outcome(NoErr,
                              [sd EXCEPT ![key] = CopyInto(param, start, src)],
                              hnh, "gate_up", wpack)

\* the rest of the loop body, after the fused QKV slicing
LoadRest(cfg, sd, hnh, name, t, wpack) ==
    IF GateUpStrideId(name) >= 0
    THEN LoadGateUp(cfg, sd, hnh, name, t, wpack)
    ELSE IF name \notin DOMAIN sd
    THEN MissingParam(sd, hnh, "lookup", "L355", wpack)
    ELSE IF name = LmHeadWeight /\ t.ndim = 1
    THEN Outcome(Raise("IndexError", "L364"), sd, hnh, "lm_head", wpack)
    ELSE LET t2 == IF name = LmHeadWeight THEN Normalize(t) ELSE t
             hnh2 == NormHeadFlag(hnh, name)
         IN  IF Contains(EmbedTokens, name) \/ Contains(LmHead, name)
             THEN LoadPaddedTensorParallelVocab(cfg, sd, hnh2, name, t2, wpack)
             ELSE LoadTensorParallelWeights(cfg, sd, hnh2, name, t2, wpack)

\* the body of the loop of load_weights for the entry (name, t)
LoadEntry(cfg, sd, hnh, name, t) ==
    IF IsSkipped(name)
    THEN Outcome(NoErr, sd, hnh, "skip", FALSE)
    ELSE IF Contains(WPack, name)
    THEN IF ~WPackViewable(cfg, t)
         THEN Outcome(Raise("RuntimeError", "L333"), sd, hnh, "w_pack", FALSE)
         ELSE LoadRest(cfg, sd, hnh, name, WPackSlice(cfg, t), TRUE)
    ELSE LoadRest(cfg, sd, hnh, name, t, FALSE)

\* ------------------------------------------------------------------------
\* Inputs: configurations and checkpoint entries
\* ------------------------------------------------------------------------
\* the vocabulary holds two rows per rank
Config(ws, rank, heads, head_dim, inter) ==
    [world_size |-> ws, rank |-> rank, num_attention_heads |-> heads,
     hidden_size |-> heads * head_dim, intermediate_size |-> inter,
     vocab_size |-> 2 * ws]

SmallConfigs ==
    {Config(ws, rank, heads, head_dim, inter) :
        ws \in 1..MaxWorld, rank \in 0..(MaxWorld - 1), heads \in 1..MaxHeads,
        head_dim \in 1..MaxHeadDim, inter \in 1..MaxInter}

\* the end-to-end scenario: world_size 2, 4 heads of dimension 8 (hidden
\* size 32), intermediate size 16
ScenarioConfigs == {Config(2, rank, 4, 8, 16) : rank \in 0..1}

Configs == {c \in SmallConfigs \cup ScenarioConfigs : c.rank < c.world_size}

\* the shape a checkpoint written for the configuration holds under a name
CanonicalShape(cfg, name) ==
    IF Contains(RotaryInvFreq, name) THEN <<1>>
    ELSE IF Contains(WPack, name) THEN <<3 * cfg.hidden_size, cfg.hidden_size>>
    ELSE IF Contains(GateProj, name) \/ Contains(UpProj, name)
    THEN <<cfg.intermediate_size, cfg.hidden_size>>
    ELSE IF Contains(DownProj, name)
    THEN <<cfg.hidden_size, cfg.intermediate_size>>
    ELSE IF Contains(OProj, name) THEN <<cfg.hidden_size, cfg.hidden_size>>
    ELSE IF Contains(EmbedTokens, name) \/ Contains(LmHead, name)
    THEN <<cfg.vocab_size, cfg.hidden_size>>
    ELSE <<cfg.hidden_size>>

\* the shapes the stream may hold under a name: the canonical one, and the
\* ones of a checkpoint written for another configuration, a row short or
\* long, or a column long
RowDeltas == {-1, 0, 1}
ColDeltas == {0, 1}
EntryShapes(cfg, name) ==
    LET c == CanonicalShape(cfg, name)
    IN  IF Len(c) = 1
        THEN {<<c[1] + dr>> : dr \in {d \in RowDeltas : c[1] + d >= 1}}
        ELSE {<<c[1] + dr, c[2] + dc>> :
                dr \in {d \in RowDeltas : c[1] + d >= 1}, dc \in ColDeltas}

NoEntry == [path |-> "none", wpack |-> FALSE]
NoTensor == [name |-> <<>>, shape |-> <<>>]

\* ------------------------------------------------------------------------
\* The loader of one rank
\* ------------------------------------------------------------------------
Init ==
    /\ pc = "init"
    /\ err = NoErr
    /\ config \in Configs
    /\ state_dict = <<>>
    /\ has_norm_head = FALSE
    /\ seen = [n \in EntryNames |-> 0]
    /\ nread = 0
    /\ last = NoEntry
    /\ ckpt = NoTensor
    /\ gathered = <<>>

\* BaiChuanBaseForCausalLM.__init__: every layer is constructed, or the
\* construction raises
Construct ==
    /\ pc = "init"
    /\ IF ~HeadsDivisible(config)
       THEN /\ pc' = "failed"
            /\ err' = Raise("AssertionError", "L128")
            /\ UNCHANGED state_dict
       ELSE IF \E n \in SplitDims(config) : ~Partitionable(n, config)
       THEN /\ pc' = "failed"
            /\ err' = Raise("AssertionError", "parallel_utils")
            /\ UNCHANGED state_dict
       ELSE /\ pc' = "ready"
            /\ state_dict' = NewStore(config)
            /\ UNCHANGED err
    /\ UNCHANGED <<config, has_norm_head, seen, nread, last, ckpt, gathered>>

\* load_weights up to the loop
BeginLoad ==
    /\ pc = "ready"
    /\ pc' = "loading"
    /\ has_norm_head' = FALSE
    /\ UNCHANGED <<err, config, state_dict, seen, nread, last, ckpt, gathered>>

\* one iteration of the loop: the stream yields (name, tensor of shape)
ProcessEntry(name, shape) ==
    /\ pc = "loading"
    /\ nread < MaxStream
    /\ LET out == LoadEntry(config, state_dict, has_norm_head, name,
                            CheckpointTensor(name, shape))
       IN  /\ pc' = IF out.err = NoErr THEN "loading" ELSE "failed"
           /\ err' = out.err
           /\ state_dict' = out.state_dict
           /\ has_norm_head' = out.has_norm_head
           /\ last' = [path |-> out.path, wpack |-> out.wpack]
    /\ seen' = [seen EXCEPT ![name] = @ + 1]
    /\ nread' = nread + 1
    /\ UNCHANGED <<config, ckpt, gathered>>

\* the stream is exhausted: assert has_norm_head
EndOfStream ==
    /\ pc = "loading"
    /\ IF has_norm_head
       THEN pc' = "done" /\ UNCHANGED err
       ELSE pc' = "failed" /\ err' = Raise("AssertionError", "L383")
    /\ UNCHANGED <<config, state_dict, has_norm_head, seen, nread, last,
                   ckpt, gathered>>

Step ==
    \E name \in EntryNames : \E shape \in EntryShapes(config, name) :
        ProcessEntry(name, shape)

Next == Construct \/ BeginLoad \/ Step \/ EndOfStream

Spec == Init /\ [][Next]_vars

\* ------------------------------------------------------------------------
\* SpecShard: what the ranks 0, 1, ... take of one checkpoint tensor
\* ------------------------------------------------------------------------
\* the model can be constructed
Constructible(cfg) ==
    /\ HeadsDivisible(cfg)
    /\ \A n \in SplitDims(cfg) : Partitionable(n, cfg)

ShardedNames ==
    UNION {{SelfAttn(l) \o WPack \o Weight, Mlp(l) \o GateProj \o Weight,
            Mlp(l) \o UpProj \o Weight} : l \in LayerIds}

\* the rows of the checkpoint tensor that the loader of a rank reads
RowsTaken(cfg, sd, name, shape) ==
    IF Contains(WPack, name)
    THEN WPackSlice(cfg, CheckpointTensor(name, shape)).rows
    ELSE GateUpSource(cfg, sd[GateUpParamName(name)],
                      CheckpointTensor(name, shape)).rows

InitShard ==
    /\ pc = "shard"
    /\ err = NoErr
    /\ config \in {c \in Configs : c.rank = 0 /\ Constructible(c)}
    /\ state_dict = NewStore(config)
    /\ has_norm_head = FALSE
    /\ seen = [n \in EntryNames |-> 0]
    /\ nread = 0
    /\ last = NoEntry
    /\ ckpt \in UNION {{[name |-> n, shape |-> sh] :
                            sh \in EntryShapes(config, n)} : n \in ShardedNames}
    /\ gathered = <<>>

\* the next rank reads the tensor
TakeShard ==
    /\ pc = "shard"
    /\ config.rank = Len(gathered)
    /\ Contains(WPack, ckpt.name) =>
            WPackViewable(config, CheckpointTensor(ckpt.name, ckpt.shape))
    /\ gathered' = Append(gathered,
                          RowsTaken(config, state_dict, ckpt.name, ckpt.shape))
    /\ IF config.rank + 1 < config.world_size
       THEN /\ config' = [config EXCEPT !.rank = @ + 1]
            /\ pc' = "shard"
       ELSE /\ config' = config
            /\ pc' = "gathered"
    /\ UNCHANGED <<err, state_dict, has_norm_head, seen, nread, last, ckpt>>

SpecShard == InitShard /\ [][TakeShard]_vars

\* ------------------------------------------------------------------------
\* Properties
\* ------------------------------------------------------------------------
\* load_weights ran and ended, by returning or by raising
LoadEnded ==
    \/ pc = "done"
    \/ pc = "failed" /\ err.at \notin {"L128", "parallel_utils"}

\* the stream is exhausted in this step
StreamEnds == pc = "loading" /\ pc' # "loading" /\ nread' = nread

Reads(name) == pc = "loading" /\ seen'[name] = seen[name] + 1

\* C7: an entry whose name contains rotary_emb.inv_freq is discarded: the
\* parameter store and has_norm_head are unchanged and nothing is raised,
\* whatever else the name contains.
C7_RotarySkipped ==
    [][\A name \in EntryNames :
            Reads(name) /\ Contains(RotaryInvFreq, name) =>
                /\ state_dict' = state_dict
                /\ has_norm_head' = has_norm_head
                /\ pc' = "loading"
                /\ err' = NoErr]_vars

\* skipped entries whose names also contain gate_proj and lm_head were read
\* after lm_head.weight was loaded
C7_Witness ==
    /\ pc = "done"
    /\ seen[LmHeadWeight] = 1
    /\ \E n \in EntryNames :
            /\ seen[n] = 1
            /\ Contains(RotaryInvFreq, n)
            /\ (Contains(GateProj, n) \/ Contains(LmHead, n) \/ Contains(WPack, n))

ReachesGateUpCheck(name) ==
    /\ ~Contains(RotaryInvFreq, name)
    /\ ~Contains(WPack, name)
    /\ \/ /\ Contains(GateProj, name)
          /\ Replace(name, GateProj, GateUpProj) \in DOMAIN state_dict
       \/ /\ ~Contains(GateProj, name)
          /\ Contains(UpProj, name)
          /\ Replace(name, UpProj, GateUpProj) \in DOMAIN state_dict

\* the rows a checkpoint tensor of n rows holds in [lo, hi)
RowsIn(n, lo, hi) == Cardinality({i \in 0..(n - 1) : lo <= i /\ i < hi})

\* the rank's slice of the entry has the shape of the destination sub-range:
\* half the rows of the rank's fused destination, and its columns
GateUpFits(name, shape) ==
    LET dest == state_dict[IF Contains(GateProj, name)
                           THEN Replace(name, GateProj, GateUpProj)
                           ELSE Replace(name, UpProj, GateUpProj)].shape
        half == dest[1] \div 2
    IN  /\ Len(shape) = 2
        /\ RowsIn(shape[1], half * config.rank, half * (config.rank + 1)) = half
        /\ shape[2] = dest[2]

\* C5: a gate_proj or up_proj entry whose slice for the rank does not have
\* the shape of the destination sub-range (a checkpoint tensor with too few
\* rows included) ends the load with the assertion of line 348 failing; the
\* store is as it was before the entry, and no later entry is processed.
C5_GateUpShapeError ==
    [][/\ \A name \in EntryNames :
            Reads(name) /\ ReachesGateUpCheck(name) =>
                \A shape \in EntryShapes(config, name) :
                    ~GateUpFits(name, shape) /\ ProcessEntry(name, shape) =>
                        /\ pc' = "failed"
                        /\ err' = Raise("AssertionError", "L348")
                        /\ state_dict' = state_dict
                        /\ has_norm_head' = has_norm_head
       /\ pc # "failed"]_vars

\* a gate/up entry of the wrong shape ended a load that had already written
\* the head parameter
C5_Witness ==
    /\ pc = "failed"
    /\ err = Raise("AssertionError", "L348")
    /\ last.path = "gate_up"
    /\ seen[LmHeadWeight] = 1
    /\ state_dict[LmHeadWeight].wcnt[1] = 1

\* the name is neither skipped nor resolved to a parameter of the store
Unrecognized(name) ==
    /\ ~Contains(RotaryInvFreq, name)
    /\ name \notin StoreNames
    /\ Contains(GateProj, name) => Replace(name, GateProj, GateUpProj) \notin StoreNames
    /\ Contains(UpProj, name) => Replace(name, UpProj, GateUpProj) \notin StoreNames

\* C6, as stated: an entry whose name matches neither the skip rule nor a
\* parameter of the store is tolerated: the load goes on with the entries
\* that follow it.
C6_UnknownTolerated ==
    [][\A name \in EntryNames :
            Reads(name) /\ Unrecognized(name) => pc' = "loading"]_vars

\* C6, amended: an entry whose name matches neither the skip rule nor a
\* parameter of the store ends the load: the lookup in the store raises
\* KeyError (line 342 for a name holding gate_proj or up_proj, line 355
\* otherwise; a W_pack name whose tensor does not fit the view raises
\* there, before the lookup); the store is unchanged and no later entry is
\* processed.
C6_UnknownAborts ==
    [][/\ \A name \in EntryNames :
            Reads(name) /\ Unrecognized(name) =>
                /\ pc' = "failed"
                /\ \/ /\ err' = Raise("KeyError", "L342")
                      /\ (Contains(GateProj, name) \/ Contains(UpProj, name))
                   \/ /\ err' = Raise("KeyError", "L355")
                      /\ ~Contains(GateProj, name)
                      /\ ~Contains(UpProj, name)
                   \/ /\ err' = Raise("RuntimeError", "L333")
                      /\ Contains(WPack, name)
                /\ state_dict' = state_dict
                /\ has_norm_head' = has_norm_head
       /\ pc # "failed"]_vars

\* an unrecognized name ended a load at the lookup of line 355, after
\* another entry had been loaded
C6_Witness ==
    /\ pc = "failed"
    /\ err = Raise("KeyError", "L355")
    /\ nread = 2
    /\ \E n \in EntryNames : seen[n] = 1 /\ Unrecognized(n)

GateName(l) == Mlp(l) \o GateProj \o Weight
UpName(l) == Mlp(l) \o UpProj \o Weight
FusedName(l) == Mlp(l) \o GateUpProj \o Weight

\* the step leaves the rows lo+1..hi of the destination as they were
RowsKept(p, q, lo, hi) ==
    \A i \in (lo + 1)..hi : q.data[i] = p.data[i] /\ q.wcnt[i] = p.wcnt[i]

\* the step writes the rows lo+1..hi of the destination once more, with the
\* rows first, first+1, ... of the entry src
RowsWritten(p, q, lo, hi, src, first) ==
    \A i \in (lo + 1)..hi :
        /\ q.wcnt[i] = p.wcnt[i] + 1
        /\ q.data[i].src = src
        /\ q.data[i].row = first + (i - lo - 1)
        /\ q.data[i].cols = Range(p.shape[2])

\* the step loads an entry into one half of the fused destination of layer l
HalfLoaded(l, src, lo, hi, other_lo, other_hi) ==
    LET p == state_dict[FusedName(l)]
        q == state_dict'[FusedName(l)]
        half == p.shape[1] \div 2
    IN  /\ RowsWritten(p, q, lo, hi, src, half * config.rank)
        /\ RowsKept(p, q, other_lo, other_hi)
        /\ \A n \in StoreNames \ {FusedName(l)} : state_dict'[n] = state_dict[n]

\* the gate and the up entry of layer l have been loaded, once each: every
\* row of the fused destination has been written once, the first half from
\* the gate entry and the second from the up entry
BothHalves(l) ==
    LET p == state_dict[FusedName(l)]
        half == p.shape[1] \div 2
    IN  \A i \in 1..p.shape[1] :
            /\ p.wcnt[i] = 1
            /\ p.data[i].src = IF i <= half THEN GateName(l) ELSE UpName(l)
            /\ p.data[i].row = (half * config.rank) + ((i - 1) % half)

GateAndUpLoaded ==
    \A l \in LayerIds :
        /\ pc \in {"loading", "done"}
        /\ seen[GateName(l)] = 1
        /\ seen[UpName(l)] = 1
        /\ state_dict[FusedName(l)].shape[1] % 2 = 0
        => BothHalves(l)

\* C10: on a fused destination with an even number of rows, a gate_proj
\* entry writes the first half of the rows only and an up_proj entry the
\* second half only, the other half and every other parameter staying as
\* they were; once both are loaded, in either order, every row has been
\* written once and the destination is the same.  A name that holds both
\* gate_proj and up_proj is handled as a gate entry.
C10_GateUpHalves ==
    [][/\ \A l \in LayerIds :
            LET n == state_dict[FusedName(l)].shape[1]
            IN  /\ Reads(GateName(l)) /\ pc' = "loading" /\ n % 2 = 0 =>
                    HalfLoaded(l, GateName(l), 0, n \div 2, n \div 2, n)
                /\ Reads(UpName(l)) /\ pc' = "loading" /\ n % 2 = 0 =>
                    HalfLoaded(l, UpName(l), n \div 2, n, 0, n \div 2)
       /\ GateAndUpLoaded'
       /\ \A name \in EntryNames :
            Contains(GateProj, name) /\ Contains(UpProj, name)
            /\ ~Contains(RotaryInvFreq, name) /\ Reads(name) =>
                /\ GateUpStrideId(name) = 0
                /\ Replace(name, GateProj, GateUpProj) \notin DOMAIN state_dict
                /\ err' = Raise("KeyError", "L342")
                /\ state_dict' = state_dict]_vars

\* the up entry was loaded before the gate entry, on rank 1 of 2
C10_Witness ==
    \E l \in LayerIds :
        /\ pc = "loading"
        /\ config.world_size = 2
        /\ config.rank = 1
        /\ seen[GateName(l)] = 1
        /\ seen[UpName(l)] = 1
        /\ last.path = "gate_up"
        /\ state_dict[FusedName(l)].data[1].src = GateName(l)
        /\ BothHalves(l)

\* the destination rows (counted from 0) that the step writes
WrittenRows(name) ==
    {i - 1 : i \in {j \in 1..state_dict[name].shape[1] :
                        state_dict'[name].wcnt[j] # state_dict[name].wcnt[j]}}

\* the rows of the entry (counted from 0) that the destination holds of src
SourceRows(name, src) ==
    {state_dict[name].data[i].row :
        i \in {j \in 1..state_dict[name].shape[1] :
                    state_dict[name].data[j].src = src}}

\* C3, as stated: with intermediate_size 16 and world_size 2 the fused
\* destination has 32 rows; the gate entry is written to the destination
\* rows [0,8) on rank 0 and [8,16) on rank 1, the up entry to the rows
\* [16,24) on rank 0 and [24,32) on rank 1.
C3_GlobalRows ==
    [][\A l \in LayerIds :
        config \in ScenarioConfigs /\ pc' = "loading" =>
            /\ Reads(GateName(l)) =>
                /\ state_dict[FusedName(l)].shape[1] = 32
                /\ WrittenRows(FusedName(l))
                    = (8 * config.rank)..((8 * config.rank) + 7)
            /\ Reads(UpName(l)) =>
                /\ state_dict[FusedName(l)].shape[1] = 32
                /\ WrittenRows(FusedName(l))
                    = (16 + (8 * config.rank))..((16 + (8 * config.rank)) + 7)]_vars

\* C3, amended: with intermediate_size 16 and world_size 2 the fused
\* destination of a rank has 16 rows; on either rank the gate entry is
\* written to the destination rows [0,8) and the up entry to the rows
\* [8,16), and what rank r writes there are the rows [8r, 8r+8) of the entry.
C3_LocalRows ==
    [][\A l \in LayerIds :
        config \in ScenarioConfigs /\ pc' = "loading" =>
            /\ Reads(GateName(l)) =>
                /\ state_dict[FusedName(l)].shape[1] = 16
                /\ WrittenRows(FusedName(l)) = 0..7
                /\ SourceRows(FusedName(l), GateName(l))'
                    = (8 * config.rank)..((8 * config.rank) + 7)
            /\ Reads(UpName(l)) =>
                /\ state_dict[FusedName(l)].shape[1] = 16
                /\ WrittenRows(FusedName(l)) = 8..15
                /\ SourceRows(FusedName(l), UpName(l))'
                    = (8 * config.rank)..((8 * config.rank) + 7)]_vars

\* rank 1 of the scenario has loaded the up entry
C3_Witness ==
    \E l \in LayerIds :
        /\ config \in ScenarioConfigs
        /\ config.rank = 1
        /\ pc = "loading"
        /\ seen[UpName(l)] = 1
        /\ state_dict[FusedName(l)].wcnt[9] = 1
        /\ state_dict[FusedName(l)].data[9].row = 8
        /\ state_dict[FusedName(l)].wcnt[8] = 0

VocabNames == {LmHeadWeight, EmbedTokensWeight}

\* C4, as stated: when load_weights returns, no row of a destination has
\* been written more than once and every destination has been written, up
\* to the trailing rows of the vocabulary parameters.
C4_WrittenOnce ==
    pc = "done" =>
        \A n \in StoreNames :
            /\ \A i \in 1..state_dict[n].shape[1] : state_dict[n].wcnt[i] <= 1
            /\ state_dict[n].wcnt[1] = 1
            /\ n \notin VocabNames =>
                \A i \in 1..state_dict[n].shape[1] : state_dict[n].wcnt[i] = 1

\* C4, amended: when load_weights returns, every row of a destination has
\* been written once for each entry of the stream that names it: the first
\* half of a fused gate/up destination once per gate entry, the second half
\* once per up entry, another destination once per entry of its own name (a
\* vocabulary parameter up to the rows the entry holds for the rank); and
\* the stream held lm_head.weight.
C4_WrittenPerEntry ==
    pc = "done" =>
        /\ seen[LmHeadWeight] >= 1
        /\ \A n \in StoreNames : \A i \in 1..state_dict[n].shape[1] :
            LET w == state_dict[n].wcnt[i]
                half == state_dict[n].shape[1] \div 2
            IN  IF Contains(GateUpProj, n)
                THEN w = IF i <= half
                         THEN seen[Replace(n, GateUpProj, GateProj)]
                         ELSE seen[Replace(n, GateUpProj, UpProj)]
                ELSE IF n \in VocabNames
                THEN w <= seen[n] /\ (i = 1 => w = seen[n])
                ELSE w = seen[n]

\* a stream of lm_head.weight and a gate entry has been loaded
C4_Witness ==
    \E l \in LayerIds :
        /\ pc = "done"
        /\ seen[LmHeadWeight] = 1
        /\ seen[GateName(l)] = 1
        /\ state_dict[FusedName(l)].wcnt[1] = 1
        /\ state_dict[LmHeadWeight].wcnt[1] = 1

\* the rows first, first + 1, ..., first + n - 1
RowRun(first, n) == [j \in 1..n |-> first + (j - 1)]

\* what rank r (counted from 0) took of the projection p of a fused QKV
\* tensor, each rank having taken per rows of every projection
TakenOfProjection(r, p, per) ==
    SubSeq(gathered[r + 1], (p * per) + 1, (p + 1) * per)

\* C2: of a fused QKV tensor, the number of heads being a multiple of the
\* world size, rank r takes for each of the three projections the rows of
\* the heads [r * local_heads, (r + 1) * local_heads), in their order in the
\* tensor, and nothing else; what the ranks take is pairwise disjoint and
\* covers the tensor, and the ranks' parts of a projection, concatenated in
\* rank order, are the projection.
C2_HeadRanges ==
    Contains(WPack, ckpt.name) /\ pc \in {"shard", "gathered"} =>
        LET total == config.num_attention_heads
            head_size == config.hidden_size \div total
            local_heads == total \div config.world_size
            per == local_heads * head_size
        IN  /\ \A r \in 0..(Len(gathered) - 1) :
                /\ Len(gathered[r + 1]) = 3 * per
                /\ \A p \in 0..2 :
                    TakenOfProjection(r, p, per)
                        = RowRun((p * total * head_size)
                                 + (r * local_heads * head_size), per)
            /\ \A r1, r2 \in 0..(Len(gathered) - 1) :
                r1 # r2 =>
                    SeqToSet(gathered[r1 + 1]) \cap SeqToSet(gathered[r2 + 1]) = {}
            /\ pc = "gathered" =>
                /\ Len(gathered) = config.world_size
                /\ UNION {SeqToSet(gathered[r + 1]) :
                            r \in 0..(config.world_size - 1)}
                        = 0..((3 * total * head_size) - 1)
                /\ \A p \in 0..2 :
                    Flatten([r \in 1..config.world_size |->
                                TakenOfProjection(r - 1, p, per)])
                        = RowRun(p * total * head_size, total * head_size)

\* two ranks have split a fused QKV tensor of four heads
C2_Witness ==
    /\ pc = "gathered"
    /\ Contains(WPack, ckpt.name)
    /\ config.world_size = 2
    /\ config.num_attention_heads = 4
    /\ Len(gathered) = 2
    /\ gathered[1][1] = 0
    /\ gathered[2][1] = 16
    /\ gathered[2][17] = 48

GateOrUp(name) ==
    ~Contains(WPack, name) /\ (Contains(GateProj, name) \/ Contains(UpProj, name))

\* C8, as stated: whatever the number D of rows of a gate or up tensor, the
\* row ranges the ranks take of it, concatenated in rank order, are the
\* rows [0, D).
C8_EveryD ==
    pc = "gathered" /\ GateOrUp(ckpt.name) =>
        Flatten(gathered) = Range(ckpt.shape[1])

\* C8, amended: when the number D of rows of a gate or up tensor is
\* world_size times the shard size (half the rows of the rank's fused
\* destination), every rank takes shard-size rows, the ranks take disjoint
\* rows, and the ranges concatenated in rank order are the rows [0, D).
C8_ShardsReassemble ==
    pc = "gathered" /\ GateOrUp(ckpt.name) =>
        LET rows == state_dict[GateUpParamName(ckpt.name)].shape[1]
            D == ckpt.shape[1]
        IN  D = (rows \div 2) * config.world_size =>
                /\ Len(gathered) = config.world_size
                /\ \A r \in 1..Len(gathered) :
                    Len(gathered[r]) = D \div config.world_size
                /\ \A r1, r2 \in 1..Len(gathered) :
                    r1 # r2 =>
                        SeqToSet(gathered[r1]) \cap SeqToSet(gathered[r2]) = {}
                /\ Flatten(gathered) = Range(D)

\* two ranks have split an up tensor of the model's intermediate size
C8_Witness ==
    /\ pc = "gathered"
    /\ Contains(UpProj, ckpt.name)
    /\ config.world_size = 2
    /\ ckpt.shape[1] = config.intermediate_size
    /\ Len(gathered) = 2
    /\ Len(gathered[2]) >= 1
    /\ gathered[2][1] = config.intermediate_size \div 2

====
